---- MODULE Spec2Model ----
(***************************************************************************)
(* Model of topic_modeling_agent.py: the per-document normalisation of the *)
(* categorical fields against the growing vocabulary (process_pdf), and    *)
(* the replace-on-merge of the new records into the Excel dataset (main).  *)
(* Text is a sequence of one-character strings, so that split, strip,      *)
(* lower, join and sorted are computed rather than assumed.                *)
(***************************************************************************)
EXTENDS Integers, Sequences, FiniteSets, TLC

VARIABLES
    methods_file,   \* topic_methods.json on disk: Absent or [keys, labels]
    excel_file,     \* the --excel file on disk: Absent or a data frame
    pc,             \* "idle" | "loop" | "normalize"
    runs,           \* number of runs started so far
    exit,           \* how the last run ended: "none" | "ok" | "aborted"
    enum_methods,   \* the loaded vocabulary: [keys: Seq, labels: key -> Seq of text]
    normalize_map,  \* key -> set of text
    pdfs,           \* the list of paths of this run
    idx,            \* position of the for loop over pdfs (1-based)
    record,         \* result of json.loads for the current document
    new_records,    \* the records of this run, in processing order
    errors          \* the paths reported on stderr, in order

vars == <<methods_file, excel_file, pc, runs, exit, enum_methods,
          normalize_map, pdfs, idx, record, new_records, errors>>

(***************************************************************************)
(* Bounds of the model.                                                    *)
(***************************************************************************)
MaxPieces == 3      \* chunks concatenated to make a raw categorical text
MaxPdfs == 2        \* documents in one run
MaxRuns == 2        \* runs of the program in one behaviour

(***************************************************************************)
(* Text: str of Python as a sequence of characters.                        *)
(***************************************************************************)
\* the characters of the model in code-point order (what sorted() compares)
Alphabet == <<" ", "/", ";", "B", "N", "S", "a", "b", "c", "d", "e", "f",
              "i", "n", "o", "p", "s", "t", "x", "y", "z">>

Ord(c) == CHOOSE i \in 1..Len(Alphabet) : Alphabet[i] = c

\* str.lower on one character
LowerChar(c) ==
    CASE c = "B" -> "b"
      [] c = "N" -> "n"
      [] c = "S" -> "s"
      [] OTHER -> c

\* str.lower
Lower(s) == [i \in 1..Len(s) |-> LowerChar(s[i])]

\* str.isspace on one character
IsSpace(c) == c = " "

RECURSIVE LStrip(_)
LStrip(s) ==
    IF s # <<>> /\ IsSpace(Head(s)) THEN LStrip(Tail(s)) ELSE s

RECURSIVE RStrip(_)
RStrip(s) ==
    IF s # <<>> /\ IsSpace(s[Len(s)]) THEN RStrip(SubSeq(s, 1, Len(s) - 1)) ELSE s

\* str.strip()
Strip(s) == RStrip(LStrip(s))

\* str.split(";"): the pieces between the separators, empty pieces included
RECURSIVE SplitFrom(_, _, _)
SplitFrom(s, i, cur) ==
    IF i > Len(s) THEN <<cur>>
    ELSE IF s[i] = ";" THEN <<cur>> \o SplitFrom(s, i + 1, <<>>)
    ELSE SplitFrom(s, i + 1, Append(cur, s[i]))

Split(s) == SplitFrom(s, 1, <<>>)

\* "; ".join(items)
RECURSIVE Join(_)
Join(items) ==
    IF items = <<>> THEN <<>>
    ELSE IF Len(items) = 1 THEN items[1]
    ELSE items[1] \o <<";", " ">> \o Join(Tail(items))

\* the sentinel literals of lines 111, 115, 116 and 121
NotSpecified == <<"N", "o", "t", " ", "s", "p", "e", "c", "i", "f", "i", "e", "d">>
not_specified == <<"n", "o", "t", " ", "s", "p", "e", "c", "i", "f", "i", "e", "d">>

\* lexicographic order of str
RECURSIVE StrLess(_, _)
StrLess(a, b) ==
    IF a = <<>> THEN b # <<>>
    ELSE IF b = <<>> THEN FALSE
    ELSE IF Ord(a[1]) # Ord(b[1]) THEN Ord(a[1]) < Ord(b[1])
    ELSE StrLess(Tail(a), Tail(b))

\* sorted(v) of a set of str
RECURSIVE Sorted(_)
Sorted(S) ==
    IF S = {} THEN <<>>
    ELSE LET m == CHOOSE x \in S : \A y \in S \ {x} : StrLess(x, y)
         IN  <<m>> \o Sorted(S \ {m})

Range(f) == {f[i] : i \in DOMAIN f}

\* d[k] = v of a dict, the key added when it is new
Put(f, k, v) == [x \in DOMAIN f \cup {k} |-> IF x = k THEN v ELSE f[x]]

(***************************************************************************)
(* Values of a parsed JSON record and cells of a data frame.               *)
(***************************************************************************)
Str(t) == [kind |-> "str", text |-> t]
Num == [kind |-> "num", text |-> <<>>]      \* a JSON number: a value with no .split
NaN == [kind |-> "nan", text |-> <<>>]      \* pandas' missing cell

Dict(f) == [isdict |-> TRUE, fields |-> f]
NonDict == [isdict |-> FALSE, fields |-> <<>>]   \* json.loads gave a list or a scalar
NoRecord == [isdict |-> FALSE, fields |-> <<>>]

\* the keys of the dict built when topic_methods.json does not exist
DefaultKeys == <<"AnalyzedFields", "TermPreprocessing", "Clustering", "ClusterAnalysis">>

Absent == [exists |-> FALSE]

\* lines 14-23: json.load of the file, or the four empty lists
LoadMethods(file) ==
    IF file.exists
    THEN [keys |-> file.keys, labels |-> file.labels]
    ELSE [keys |-> DefaultKeys, labels |-> [k \in Range(DefaultKeys) |-> <<>>]]

\* line 54: {k: set(v) for k, v in enum_methods.items()}
InitNormalizeMap(em) == [k \in Range(em.keys) |-> Range(em.labels[k])]

\* lines 125-127: json.dump({k: sorted(v) ...})
SaveMethods(em, nmap) ==
    [exists |-> TRUE, keys |-> em.keys, labels |-> [k \in DOMAIN nmap |-> Sorted(nmap[k])]]

(***************************************************************************)
(* process_pdf, lines 110-123: the loop over the categories.               *)
(***************************************************************************)
\* mutant of Items: the empty pieces are not discarded
Items_keepEmpty(raw) ==
    LET pieces == Split(raw)
    IN  [i \in 1..Len(pieces) |-> Strip(pieces[i])]

\* line 112: [i.strip() for i in raw.split(";") if i.strip()]
Items(raw) ==
    LET pieces == Split(raw)
        stripped == [i \in 1..Len(pieces) |-> Strip(pieces[i])]
    IN  SelectSeq(stripped, LAMBDA p : p # <<>>)

\* mutant of Normalized: the sentinel is kept in the case it came in
Normalized_verbatim(items) == items

\* lines 113-118: the list `normalized`
Normalized(items) ==
    [i \in 1..Len(items) |->
        IF Lower(items[i]) = not_specified THEN NotSpecified ELSE items[i]]

\* mutant of Added: the sentinel test of line 115 is dropped
Added_withSentinel(items, known) ==
    {it \in Range(items) : it \notin Range(known)}

\* lines 117-120: the labels added to normalize_map[key]
Added(items, known) ==
    {it \in Range(items) : Lower(it) # not_specified /\ it \notin Range(known)}

\* line 121
CanonText(items) ==
    IF Normalized(items) # <<>> THEN Join(Normalized(items)) ELSE NotSpecified

\* line 111: record.get(key, "Not specified")
Get(fields, key) == IF key \in DOMAIN fields THEN fields[key] ELSE Str(NotSpecified)

\* lines 110-121 from the i-th key on; raw.split raises on a value that is no str
RECURSIVE NormLoop(_, _, _, _)
NormLoop(em, i, fields, nmap) ==
    IF i > Len(em.keys) THEN [ok |-> TRUE, fields |-> fields, map |-> nmap]
    ELSE LET key == em.keys[i]
             raw == Get(fields, key)
         IN  IF raw.kind # "str"
             THEN [ok |-> FALSE, fields |-> fields, map |-> nmap]
             ELSE LET items == Items(raw.text)
                  IN  NormLoop(em, i + 1,
                               Put(fields, key, Str(CanonText(items))),
                               [nmap EXCEPT ![key] = @ \cup Added(items, em.labels[key])])

\* lines 110-123 with line 150: record.get and the item assignment of line 150
\* both raise on a value that is no dict
Normalize(em, rec, nmap) ==
    IF ~rec.isdict THEN [ok |-> FALSE, fields |-> rec.fields, map |-> nmap]
    ELSE NormLoop(em, 1, rec.fields, nmap)

\* os.path.basename
RECURSIVE Basename(_)
Basename(p) ==
    IF \E i \in 1..Len(p) : p[i] = "/"
    THEN Basename(Tail(p))
    ELSE p

(***************************************************************************)
(* Data frames: the columns and the rows, each row a function of them.     *)
(***************************************************************************)
EmptyFrame == [columns |-> {}, rows |-> <<>>]

Pad(row, cols) == [c \in cols |-> IF c \in DOMAIN row THEN row[c] ELSE NaN]

\* pd.DataFrame(list of dicts)
DataFrame(recs) ==
    LET cols == UNION {DOMAIN recs[i] : i \in 1..Len(recs)}
    IN  [columns |-> cols, rows |-> [i \in 1..Len(recs) |-> Pad(recs[i], cols)]]

\* DataFrame.empty
IsEmpty(df) == df.columns = {} \/ df.rows = <<>>

\* a cell as read_excel gives it back: an empty text cell is read as missing
ReadCell(c) == IF c.kind = "str" /\ c.text = <<>> THEN NaN ELSE c

\* lines 156-159
ReadExcel(file) ==
    IF file.exists
    THEN [columns |-> file.columns,
          rows |-> [i \in 1..Len(file.rows) |->
                       [c \in file.columns |-> ReadCell(file.rows[i][c])]]]
    ELSE EmptyFrame

\* DataFrame.to_excel
ToExcel(df) == [exists |-> TRUE, columns |-> df.columns, rows |-> df.rows]

\* df[col]: KeyError when the frame has no such column
HasColumn(df, col) == col \in df.columns

\* mutant of DropReplaced: the mask is inverted, the replaced rows are the ones kept
DropReplaced_inverted(df_existing, df_new) ==
    LET ids == {df_new.rows[i]["SourceFile"] : i \in 1..Len(df_new.rows)}
    IN  [columns |-> df_existing.columns,
         rows |-> SelectSeq(df_existing.rows, LAMBDA r : r["SourceFile"] \in ids)]

\* mutant of DropReplaced: the rows of every input document are dropped,
\* the failed ones too
DropReplaced_allInputs(df_existing, df_new) ==
    LET ids == {Str(Basename(pdfs[i])) : i \in 1..Len(pdfs)}
    IN  [columns |-> df_existing.columns,
         rows |-> SelectSeq(df_existing.rows, LAMBDA r : r["SourceFile"] \notin ids)]

\* line 166: df_existing[df_existing["SourceFile"].isin(df_new["SourceFile"]) == False]
DropReplaced(df_existing, df_new) ==
    LET ids == {df_new.rows[i]["SourceFile"] : i \in 1..Len(df_new.rows)}
    IN  [columns |-> df_existing.columns,
         rows |-> SelectSeq(df_existing.rows, LAMBDA r : r["SourceFile"] \notin ids)]

\* line 169: pd.concat([a, b], ignore_index=True)
Concat(a, b) ==
    LET cols == a.columns \cup b.columns
    IN  [columns |-> cols,
         rows |-> [i \in 1..Len(a.rows) |-> Pad(a.rows[i], cols)]
                  \o [i \in 1..Len(b.rows) |-> Pad(b.rows[i], cols)]]

\* lines 165-166 raise KeyError
MergeRaises(df_existing, df_new) ==
    /\ ~IsEmpty(df_existing)
    /\ ~HasColumn(df_existing, "SourceFile") \/ ~HasColumn(df_new, "SourceFile")

\* mutant of Merge: the new rows are appended with nothing dropped
Merge_appendOnly(df_existing, df_new) == Concat(df_existing, df_new)

\* lines 164-169
Merge(df_existing, df_new) ==
    Concat(IF IsEmpty(df_existing) THEN df_existing
           ELSE DropReplaced(df_existing, df_new),
           df_new)

(***************************************************************************)
(* The bounded inputs.                                                     *)
(***************************************************************************)
FileNames == <<"x", "y", "z">>
Files == {<<FileNames[i]>> : i \in 1..MaxPdfs}

\* os.path.join(args.input, f)
PathJoin(dir, f) == dir \o <<"/">> \o f

\* lines 141-144: the entries of a directory (distinct names, in the order
\* os.listdir gives them), or the one path given
Listings ==
    {l \in UNION {[1..n -> Files] : n \in 0..MaxPdfs} :
        \A i, j \in 1..Len(l) : i # j => l[i] # l[j]}

PdfLists ==
    {[i \in 1..Len(l) |-> PathJoin(<<"d">>, l[i])] : l \in Listings}
    \cup {<<PathJoin(<<"e">>, <<"x">>)>>}

\* the vocabulary files a run may find
FullMethods ==
    [exists |-> TRUE, keys |-> DefaultKeys,
     labels |-> [k \in Range(DefaultKeys) |->
                    IF k = "Clustering" THEN << <<"a">> >> ELSE <<>>]]

PartialMethods ==
    [exists |-> TRUE, keys |-> <<"Clustering", "AnalyzedFields">>,
     labels |-> [k \in {"Clustering", "AnalyzedFields"} |->
                    IF k = "Clustering" THEN << <<"B">> >> ELSE <<>>]]

MethodsFiles == {Absent, FullMethods, PartialMethods}

\* the dataset files a first run may find
KeylessExcel ==
    [exists |-> TRUE, columns |-> {"Document"},
     rows |-> << [c \in {"Document"} |-> Str(<<"z">>)] >>]

OldRow(f) ==
    [c \in {"Clustering", "SourceFile"} |->
        IF c = "SourceFile" THEN Str(f) ELSE Str(<<"o">>)]

KeyedExcel ==
    [exists |-> TRUE, columns |-> {"Clustering", "SourceFile"},
     rows |-> <<OldRow(<<"y">>), OldRow(<<"x">>)>>]

ExcelFiles == {Absent, KeylessExcel, KeyedExcel}

\* the records json.loads gives in a run of the whole pipeline: one with two
\* categories missing, one with all four
PipelineRecords ==
    { Dict([k \in {"AnalyzedFields", "Clustering"} |->
              IF k = "AnalyzedFields" THEN Str(<<"a", ";", " ", "B">>)
              ELSE Str(<<" ", "n", "o", "t", " ", "S", "p", "e", "c", "i", "f", "i", "e", "d", ";">>)]),
      Dict([k \in Range(DefaultKeys) |->
              CASE k = "AnalyzedFields" -> Str(<<"B">>)
                [] k = "TermPreprocessing" -> Str(NotSpecified)
                [] k = "Clustering" -> Str(<<"a", ";", ";", "a">>)
                [] OTHER -> Str(<<" ", ";", " ">>)]) }

(***************************************************************************)
(* The program: one run is StartRun, then per document Extract (or         *)
(* ExtractFail) and NormalizeStep, then MergeAndSave.                      *)
(***************************************************************************)
Init ==
    /\ methods_file \in MethodsFiles
    /\ excel_file \in ExcelFiles
    /\ pc = "idle"
    /\ runs = 0
    /\ exit = "none"
    /\ enum_methods = LoadMethods(Absent)
    /\ normalize_map = InitNormalizeMap(LoadMethods(Absent))
    /\ pdfs = <<>>
    /\ idx = 1
    /\ record = NoRecord
    /\ new_records = <<>>
    /\ errors = <<>>

\* module load (lines 13-23, 54) and main up to line 146
StartRun ==
    /\ pc = "idle"
    /\ runs < MaxRuns
    /\ \E l \in PdfLists : pdfs' = l
    /\ enum_methods' = LoadMethods(methods_file)
    /\ normalize_map' = InitNormalizeMap(LoadMethods(methods_file))
    /\ idx' = 1
    /\ record' = NoRecord
    /\ new_records' = <<>>
    /\ errors' = <<>>
    /\ runs' = runs + 1
    /\ exit' = "none"
    /\ pc' = "loop"
    /\ UNCHANGED <<methods_file, excel_file>>

\* process_pdf lines 84-108 raise (PDF read, API or JSON parse error);
\* main lines 152-153 report the path and go on
ExtractFail ==
    /\ pc = "loop"
    /\ idx <= Len(pdfs)
    /\ errors' = Append(errors, pdfs[idx])
    /\ idx' = idx + 1
    /\ UNCHANGED <<methods_file, excel_file, pc, runs, exit, enum_methods,
                   normalize_map, pdfs, record, new_records>>

\* process_pdf lines 84-108 succeed: json.loads gives `record`
Extract(r) ==
    /\ pc = "loop"
    /\ idx <= Len(pdfs)
    /\ record' = r
    /\ pc' = "normalize"
    /\ UNCHANGED <<methods_file, excel_file, runs, exit, enum_methods,
                   normalize_map, pdfs, idx, new_records, errors>>

\* process_pdf lines 110-123 and main lines 150-153
NormalizeStep ==
    /\ pc = "normalize"
    /\ LET res == Normalize(enum_methods, record, normalize_map)
       IN  /\ normalize_map' = res.map
           /\ IF res.ok
              THEN /\ new_records' =
                        Append(new_records,
                               Put(res.fields, "SourceFile", Str(Basename(pdfs[idx]))))
                   /\ errors' = errors
              ELSE /\ errors' = Append(errors, pdfs[idx])
                   /\ new_records' = new_records
    /\ idx' = idx + 1
    /\ pc' = "loop"
    /\ UNCHANGED <<methods_file, excel_file, runs, exit, enum_methods, pdfs, record>>

\* mutant of MergeAndSave: save_methods() is called before the merge
MergeAndSave_saveFirst ==
    /\ pc = "loop"
    /\ idx > Len(pdfs)
    /\ methods_file' = SaveMethods(enum_methods, normalize_map)
    /\ LET df_existing == ReadExcel(excel_file)
           df_new == DataFrame(new_records)
       IN  IF MergeRaises(df_existing, df_new)
           THEN /\ exit' = "aborted"
                /\ UNCHANGED excel_file
           ELSE /\ exit' = "ok"
                /\ excel_file' = ToExcel(Merge(df_existing, df_new))
    /\ pc' = "idle"
    /\ UNCHANGED <<runs, enum_methods, normalize_map, pdfs, idx, record,
                   new_records, errors>>

\* main lines 155-173: load, merge, write the dataset, then save the vocabulary;
\* a KeyError of line 166 ends the run before anything is written
MergeAndSave ==
    /\ pc = "loop"
    /\ idx > Len(pdfs)
    /\ LET df_existing == ReadExcel(excel_file)
           df_new == DataFrame(new_records)
       IN  IF MergeRaises(df_existing, df_new)
           THEN /\ exit' = "aborted"
                /\ UNCHANGED <<methods_file, excel_file>>
           ELSE /\ exit' = "ok"
                /\ excel_file' = ToExcel(Merge(df_existing, df_new))
                /\ methods_file' = SaveMethods(enum_methods, normalize_map)
    /\ pc' = "idle"
    /\ UNCHANGED <<runs, enum_methods, normalize_map, pdfs, idx, record,
                   new_records, errors>>

Next ==
    \/ StartRun
    \/ ExtractFail
    \/ \E r \in PipelineRecords : Extract(r)
    \/ NormalizeStep
    \/ MergeAndSave

Spec == Init /\ [][Next]_vars

(***************************************************************************)
(* The normalisation on all raw texts that at most MaxPieces chunks make:   *)
(* a run of two documents that is at line 110 for the first, with such a   *)
(* record; the second document answers with a pipeline record.             *)
(***************************************************************************)
MixedSentinel == <<"n", "o", "t", " ", "S", "p", "e", "c", "i", "f", "i", "e", "d">>

Chunks == {<<";">>, <<" ">>, <<"a">>, <<"B">>, NotSpecified, MixedSentinel}

RECURSIVE TextsOf(_)
TextsOf(n) ==
    IF n = 0 THEN {<<>>}
    ELSE LET shorter == TextsOf(n - 1)
         IN  shorter \cup {t \o c : t \in shorter, c \in Chunks}

RawTexts == TextsOf(MaxPieces)

\* one category carries any raw value (or is missing); the other categories
\* are all missing, all "a", or all a number
Backgrounds == {"missing", "text", "number"}

RichRecord(key, cell, bg) ==
    LET others == IF bg = "missing" THEN {} ELSE Range(DefaultKeys) \ {key}
        mine == IF cell = NaN THEN {} ELSE {key}
    IN  Dict([k \in others \cup mine |->
                 IF k = key THEN cell
                 ELSE IF bg = "text" THEN Str(<<"a">>) ELSE Num])

RichRecords ==
    {RichRecord(key, cell, bg) :
        key \in Range(DefaultKeys),
        cell \in {Str(t) : t \in RawTexts} \cup {Num, NaN},
        bg \in Backgrounds}
    \cup {NonDict}

InitNorm ==
    /\ methods_file \in MethodsFiles
    /\ excel_file = Absent
    /\ pc = "normalize"
    /\ runs = 1
    /\ exit = "none"
    /\ enum_methods = LoadMethods(methods_file)
    /\ normalize_map = InitNormalizeMap(LoadMethods(methods_file))
    /\ pdfs = <<PathJoin(<<"d">>, <<"x">>), PathJoin(<<"d">>, <<"y">>)>>
    /\ idx = 1
    /\ record \in RichRecords
    /\ new_records = <<>>
    /\ errors = <<>>

NextNorm ==
    \/ NormalizeStep
    \/ ExtractFail
    \/ \E r \in PipelineRecords : Extract(r)
    \/ MergeAndSave

SpecNorm == InitNorm /\ [][NextNorm]_vars

(***************************************************************************)
(* Runs that start with no dataset file.                                   *)
(***************************************************************************)
InitFresh == Init /\ excel_file = Absent

SpecFresh == InitFresh /\ [][Next]_vars

(***************************************************************************)
(* What the properties below speak of.                                     *)
(***************************************************************************)
\* the state in which lines 155-173 run next
AtMerge == pc = "loop" /\ idx > Len(pdfs)

\* the step of NormalizeStep that returned a record / that raised
Normalized_ok == pc = "normalize" /\ Len(new_records') = Len(new_records) + 1
Normalized_failed == pc = "normalize" /\ Len(errors') = Len(errors) + 1

\* the dataset has the identifier column, or no row at all
Keyed(df) == IsEmpty(df) \/ "SourceFile" \in df.columns

IdsOf(rows) == {rows[i]["SourceFile"] : i \in 1..Len(rows)}

UniqueIds(rows) ==
    \A i, j \in 1..Len(rows) : i # j => rows[i]["SourceFile"] # rows[j]["SourceFile"]

\* row m of the written frame carries row r: r's cells, and a missing cell in
\* every column r never had
Carries(m, r) ==
    /\ DOMAIN r \subseteq DOMAIN m
    /\ \A c \in DOMAIN r : m[c] = r[c]
    /\ \A c \in DOMAIN m \ DOMAIN r : m[c] = NaN

\* the pieces of a text between its ';', read off the positions of the ';'
SepAt(raw) == {i \in 1..Len(raw) : raw[i] = ";"}

Nth(S, j) == CHOOSE x \in S : Cardinality({y \in S : y < x}) = j - 1

PieceOf(raw, j) ==
    SubSeq(raw, Nth(SepAt(raw) \cup {0}, j) + 1, Nth(SepAt(raw) \cup {Len(raw) + 1}, j) - 1)

\* a piece without its surrounding blanks
Trimmed(p) ==
    LET inked == {i \in 1..Len(p) : p[i] # " "}
    IN  IF inked = {} THEN <<>>
        ELSE SubSeq(p, CHOOSE i \in inked : \A j \in inked : i <= j,
                       CHOOSE i \in inked : \A j \in inked : i >= j)

IsSentinel(t) ==
    /\ Len(t) = Len(not_specified)
    /\ \A i \in 1..Len(t) :
          \/ t[i] = not_specified[i]
          \/ <<t[i], not_specified[i]>> \in {<<"N", "n">>, <<"S", "s">>, <<"B", "b">>}

\* the trimmed, non-empty pieces, in order
ExpectedItems(raw) ==
    LET n == Cardinality(SepAt(raw)) + 1
    IN  SelectSeq([j \in 1..n |-> Trimmed(PieceOf(raw, j))], LAMBDA t : t # <<>>)

RECURSIVE JoinedFrom(_, _)
JoinedFrom(items, n) ==
    IF n = 1 THEN items[1]
    ELSE JoinedFrom(items, n - 1) \o <<";", " ">> \o items[n]

ExpectedCanon(raw) ==
    LET its == ExpectedItems(raw)
        out == [i \in 1..Len(its) |-> IF IsSentinel(its[i]) THEN NotSpecified ELSE its[i]]
    IN  IF its = <<>> THEN NotSpecified ELSE JoinedFrom(out, Len(out))

ExpectedLabels(raw) == {t \in Range(ExpectedItems(raw)) : ~IsSentinel(t)}

\* the raw text of category k in the parsed record, "Not specified" when missing
RawOf(k) == IF k \in DOMAIN record.fields THEN record.fields[k].text ELSE NotSpecified

AllBlank(t) == \A i \in 1..Len(t) : t[i] = " "

(***************************************************************************)
(* The claims.                                                             *)
(***************************************************************************)

C2_EmptyBatchNoOp ==
    [][ (AtMerge /\ new_records = <<>> /\ Keyed(ReadExcel(excel_file)))
        => /\ exit' = "ok"
           /\ ReadExcel(excel_file') = ReadExcel(excel_file) ]_vars

\* C3: when a document failed and another succeeded (the existing dataset
\* being keyed by SourceFile), every document of the batch was processed, the
\* run writes a dataset with a row for every success, each failed document is
\* reported, has no new record, and keeps its prior row unmodified.
C3_FailureIsolation ==
    [][ (AtMerge /\ errors # <<>> /\ new_records # <<>> /\ Keyed(ReadExcel(excel_file)))
        => LET D == ReadExcel(excel_file).rows
               M == excel_file'.rows
           IN  /\ exit' = "ok"
               /\ Len(errors) + Len(new_records) = Len(pdfs)
               /\ \A i \in 1..Len(pdfs) :
                     \/ pdfs[i] \in Range(errors)
                     \/ \E j \in 1..Len(M) :
                           /\ M[j]["SourceFile"] = Str(Basename(pdfs[i]))
                           /\ \E n \in 1..Len(new_records) : Carries(M[j], new_records[n])
               /\ \A e \in 1..Len(errors) :
                     /\ Str(Basename(errors[e])) \notin IdsOf(new_records)
                     /\ \A d \in 1..Len(D) :
                           D[d]["SourceFile"] = Str(Basename(errors[e]))
                           => \E j \in 1..Len(M) : Carries(M[j], D[d]) ]_vars

\* C3 witness: the first run found rows y, x; x failed and y succeeded; x's
\* old row is still there.
C3_Witness ==
    /\ pc = "idle" /\ exit = "ok" /\ runs = 1
    /\ errors = <<PathJoin(<<"d">>, <<"x">>)>>
    /\ Len(new_records) = 1
    /\ new_records[1]["SourceFile"] = Str(<<"y">>)
    /\ Len(excel_file.rows) = 2
    /\ Carries(excel_file.rows[1], OldRow(<<"x">>))
    /\ Carries(excel_file.rows[2], new_records[1])

\* C4: no step takes a label out of a category's set, and a label that
\* enters one is not empty, not blank and not the sentinel in any case.
C4_VocabularyMonotone ==
    [][ \A k \in DOMAIN normalize_map :
          /\ k \in DOMAIN normalize_map'
          /\ normalize_map[k] \subseteq normalize_map'[k]
          /\ \A t \in normalize_map'[k] \ normalize_map[k] :
                /\ t # <<>>
                /\ ~AllBlank(t)
                /\ ~IsSentinel(t) ]_vars

\* C4 witness: a field with the sentinel in another case, a blank piece and a
\* label was normalised, and only the label entered the set.
C4_Witness ==
    /\ pc = "loop" /\ idx = 2 /\ methods_file = Absent
    /\ record = RichRecord("Clustering", Str(MixedSentinel \o <<";">> \o <<"B">>), "missing")
    /\ normalize_map["Clustering"] = {<<"B">>}
    /\ Len(new_records) = 1

\* C5: a successful normalisation rewrites the field of every category of the
\* vocabulary to the trimmed non-empty pieces of its raw text, the sentinel
\* in any case replaced by "Not specified", joined with "; " in order and
\* with duplicates; to "Not specified" when no piece remains; a category
\* missing from the record counts as the raw text "Not specified".
C5_CanonicalText ==
    [][ Normalized_ok
        => LET out == new_records'[Len(new_records')]
           IN  \A k \in Range(enum_methods.keys) :
                  /\ k \in DOMAIN out
                  /\ out[k] = Str(ExpectedCanon(RawOf(k))) ]_vars

\* C5 witness: "a;a" became "a; a" and the missing categories became
\* "Not specified".
C5_Witness ==
    /\ pc = "loop" /\ idx = 2 /\ methods_file = Absent
    /\ record = RichRecord("AnalyzedFields", Str(<<"a", ";", "a">>), "missing")
    /\ Len(new_records) = 1
    /\ new_records[1]["AnalyzedFields"] = Str(<<"a", ";", " ", "a">>)
    /\ new_records[1]["Clustering"] = Str(NotSpecified)

\* C6: a successful normalisation leaves every category's set equal to its
\* previous set united with the trimmed, non-empty, non-sentinel pieces of
\* that category's own field; a normalisation that raises adds nothing else.
C6_VocabularyEffect ==
    [][ /\ Normalized_ok
           => /\ DOMAIN normalize_map' = DOMAIN normalize_map
              /\ \A k \in DOMAIN normalize_map :
                    normalize_map'[k] = normalize_map[k] \cup ExpectedLabels(RawOf(k))
        /\ Normalized_failed
           => \A k \in DOMAIN normalize_map :
                 normalize_map'[k] \subseteq
                    normalize_map[k] \cup
                    (IF record.isdict THEN ExpectedLabels(RawOf(k)) ELSE {}) ]_vars

\* C6 witness: a field of delimiters and blanks was normalised next to
\* fields "a": its category's set is still empty, the others hold "a".
C6_Witness ==
    /\ pc = "loop" /\ idx = 2 /\ methods_file = Absent
    /\ record = RichRecord("AnalyzedFields", Str(<<" ", ";", " ">>), "text")
    /\ Len(new_records) = 1
    /\ new_records[1]["AnalyzedFields"] = Str(NotSpecified)
    /\ normalize_map["AnalyzedFields"] = {}
    /\ normalize_map["Clustering"] = {<<"a">>}

\* C7: a fixed category whose key the loaded vocabulary file lacks is still
\* canonicalised and its labels accumulate in a set of its own.
C7_UnseenCategoryNormalized ==
    [][ Normalized_ok
        => LET out == new_records'[Len(new_records')]
           IN  \A k \in Range(DefaultKeys) :
                  (k \in DOMAIN record.fields /\ record.fields[k].kind = "str")
                  => /\ k \in DOMAIN out
                     /\ out[k] = Str(ExpectedCanon(RawOf(k)))
                     /\ k \in DOMAIN normalize_map'
                     /\ ExpectedLabels(RawOf(k)) \subseteq normalize_map'[k] ]_vars

\* C8: starting from no dataset file, the dataset on disk never holds two
\* rows with the same SourceFile.
C8_UniqueKey ==
    excel_file.exists
    => /\ Keyed(excel_file)
       /\ excel_file.rows # <<>> => UniqueIds(excel_file.rows)

\* C8 witness: x was processed in two completed runs (its first record left
\* "a" in the saved vocabulary, its row is the second record) and the
\* dataset holds one row.
C8_Witness ==
    /\ pc = "idle" /\ exit = "ok" /\ runs = 2
    /\ Len(excel_file.rows) = 1
    /\ excel_file.rows[1]["SourceFile"] = Str(<<"x">>)
    /\ excel_file.rows[1]["AnalyzedFields"] = Str(<<"B">>)
    /\ <<"a">> \in Range(methods_file.labels["AnalyzedFields"])

\* C9: when the existing dataset has a row and no SourceFile column the run
\* ends at the merge with neither file rewritten; and no step before the
\* merge writes either file.
C9_FatalDatasetError ==
    [][ /\ (AtMerge /\ ~Keyed(ReadExcel(excel_file)))
           => /\ exit' = "aborted"
              /\ excel_file' = excel_file
              /\ methods_file' = methods_file
        /\ ~AtMerge
           => /\ excel_file' = excel_file
              /\ methods_file' = methods_file ]_vars

\* C9 witness: a run with a new record ended aborted on the dataset without
\* the column, and both files are what they were.
C9_Witness ==
    /\ pc = "idle" /\ exit = "aborted"
    /\ new_records # <<>>
    /\ excel_file = KeylessExcel
    /\ methods_file = Absent

\* C10: a normalisation that raises leaves the label sets as they were.
C10_FailedDocumentAddsNothing ==
    [][ Normalized_failed => normalize_map' = normalize_map ]_vars
====
